---- MODULE Spec2Model ----
(***************************************************************************)
(* A model of the streaming core of src/services/geminiService.ts:        *)
(*   - retryWithBackoff, the retry executor of every remote call;         *)
(*   - generateImage / generateImageWithRetry;                            *)
(*   - sendMessageStreamToAI, the incremental decoder of one chat turn,   *)
(*     run with the callbacks App.tsx hands to it, and the loading flag   *)
(*     and image generation of handleSendMessage around it;               *)
(*   - createBlob / decodeAudioData, the two PCM conversions;             *)
(*   - AudioPlayer (play, stopAll) on the clock of its AudioContext;      *)
(*   - LiveSession (start, setupMicrophone, handleMessage, stop) with the *)
(*     remote channel and the voice toggle of App.tsx around it.          *)
(*                                                                         *)
(* Text is a sequence of units.  The separator and body text are spelled  *)
(* character by character; the JSON header is spelled lexeme by lexeme    *)
(* (a brace, one "name:value" member), so a fragment boundary    *)
(* can fall anywhere inside the separator and between any two lexemes.    *)
(***************************************************************************)
EXTENDS Integers, Sequences, FiniteSets, TLC

VARIABLES
    \* ---- retryWithBackoff (one call in progress at a time per turn) ----
    r_pc,         \* "idle" | "awaiting" | "sleeping" | "returned" | "thrown"
    r_op,         \* which apiCall is wrapped: "none" | "generic" | "image" | "stream"
    maxRetries,   \* parameter maxRetries
    initialDelay, \* parameter initialDelay
    attempt,      \* loop variable attempt
    delay,        \* local delay
    r_log,        \* what the executor did, in order: invoke / fail / ok / sleep
    r_error,      \* the error the call rejected with (NoError while none)
    r_result,     \* the value the call resolved with ("none" while none)
    \* ---- sendMessageStreamToAI ----
    d_pc,         \* "init" | "opening" | "streaming" | "done"
    d_exit,       \* how the turn ended: "none" | "noinput" | "image" | "eos" | "error"
    full,         \* the text the remote stream delivers over the whole turn
    pos,          \* number of units of full delivered so far
    chunkText,    \* local chunkText: the fragment the loop body last ran on
    buffer,       \* local buffer
    jsonParsed,   \* local jsonParsed
    events,       \* callbacks invoked so far, in order
    \* ---- handleSendMessage of App.tsx, around the turn ----
    isLoading,    \* App state isLoading
    loadingCleared, \* number of setIsLoading(false) calls of the turn so far
    i_pc,         \* handleImageGeneration: "none" | "generating" | "converting" (its two awaits) | "done"
    \* ---- createBlob / decodeAudioData (one PCM frame through both) ----
    pcm_pc,       \* "idle" | "encoded" | "decoded"
    inputData,    \* the Float32Array handed to createBlob, one amplitude per sample
    int16,        \* createBlob's local int16
    blobData,     \* the bytes of the blob (what encode() wraps and decode() unwraps)
    channelData,  \* the channel of the AudioBuffer decodeAudioData returns
    \* ---- AudioPlayer ----
    currentTime,  \* audioContext.currentTime, in ticks
    nextStartTime,\* field nextStartTime
    sources,      \* field sources: the tracked source nodes, by the index of their play() call
    p_pc,         \* "idle" | "decoding": play() is suspended at its await of decodeAudioData
    p_duration,   \* audioBuffer.duration of the buffer being decoded, in ticks
    p_calledAt,   \* currentTime as the suspended play() call read it
    stopCount,    \* number of stopAll() calls so far
    started,      \* every source.start(when) so far, in order, and what became of the source
    \* ---- LiveSession, with the callbacks App.tsx hands to it ----
    l_pc,         \* start(): "new" | "acquiring" (at its await) | "started" | "failed" (it threw)
    mediaStream,  \* field mediaStream: "null" | "live" | "stopped" (its tracks)
    sessionPromise, \* field sessionPromise: "null" | "pending" | "resolved" | "rejected"
    channel,      \* the remote channel: "none" | "connecting" | "open" | "closing" | "errored" | "closed"
    processorNode,\* the capture pipeline of setupMicrophone: "null" | "connected" | "disconnected"
    stop_pc,      \* stop(): "none" | "awaiting" (at its await) | "done" | "threw"
    currentInputTranscription,  \* field currentInputTranscription
    currentOutputTranscription, \* field currentOutputTranscription
    calls,        \* the callbacks invoked so far, in order
    sent,         \* what was sent on the channel so far, in order
    received,     \* number of server messages handled so far
    message,      \* parameter message: the server message handleMessage last ran on
    frames,       \* number of captured frames handled so far
    isVoiceSessionActive, \* App state isVoiceSessionActive
    alerted       \* App showed the "Could not start voice chat" alert

retryVars == <<r_pc, r_op, maxRetries, initialDelay, attempt, delay, r_log, r_error, r_result>>
decoderVars == <<d_pc, d_exit, full, pos, chunkText, buffer, jsonParsed, events>>
pcmVars == <<pcm_pc, inputData, int16, blobData, channelData>>
appVars == <<isLoading, loadingCleared, i_pc>>
textVars == <<retryVars, decoderVars, appVars>>
playerVars == <<currentTime, nextStartTime, sources, p_pc, p_duration, p_calledAt, stopCount, started>>
liveVars ==
    <<l_pc, mediaStream, sessionPromise, channel, processorNode, stop_pc, currentInputTranscription,
      currentOutputTranscription, calls, sent, received, message, frames, isVoiceSessionActive,
      alerted>>
voiceVars == <<pcmVars, playerVars, liveVars>>
vars == <<retryVars, decoderVars, appVars, voiceVars>>

\* ------------------------------------------------------------------ bounds
MaxBody == 2          \* longest plain body text, in characters
MaxRetriesBound == 4  \* largest maxRetries a generic call is made with

\* ------------------------------------------------------------------ text
separator == <<"J", "S", "O", "N", "|", "|", "|", "T", "E", "X", "T">>

RECURSIVE Concat(_)
Concat(ss) == IF ss = <<>> THEN <<>> ELSE Head(ss) \o Concat(Tail(ss))

\* index of the first occurrence of pat in s, 0 when there is none (String.indexOf + 1)
IndexOf(s, pat) ==
    LET hits == { i \in 1..(Len(s) - Len(pat) + 1) : SubSeq(s, i, i + Len(pat) - 1) = pat }
    IN IF hits = {} THEN 0 ELSE CHOOSE i \in hits : \A j \in hits : i <= j

\* buffer.includes(separator)
Includes(s, pat) == IndexOf(s, pat) > 0

\* String.prototype.split(pat) for a non-empty pat: the pieces between the occurrences
RECURSIVE Split(_, _)
Split(s, pat) ==
    LET i == IndexOf(s, pat)
    IN IF i = 0 THEN << s >>
       ELSE << SubSeq(s, 1, i - 1) >> \o Split(SubSeq(s, i + Len(pat), Len(s)), pat)

\* Array.prototype.join(pat)
RECURSIVE Join(_, _)
Join(ps, pat) ==
    IF ps = <<>> THEN <<>>
    ELSE IF Len(ps) = 1 THEN ps[1]
    ELSE ps[1] \o pat \o Join(Tail(ps), pat)

IsSpace(u) == u = " "

\* String.prototype.trim()
RECURSIVE TrimLeft(_)
TrimLeft(s) == IF s # <<>> /\ IsSpace(Head(s)) THEN TrimLeft(Tail(s)) ELSE s
RECURSIVE TrimRight(_)
TrimRight(s) ==
    IF s # <<>> /\ IsSpace(s[Len(s)]) THEN TrimRight(SubSeq(s, 1, Len(s) - 1)) ELSE s
Trim(s) == TrimRight(TrimLeft(s))

\* ------------------------------------------------------------------ JSON header
\* A parsed JSON value: null, or an object whose present members are `fields`
\* (an absent member reads as undefined: FALSE / empty below).
NullValue ==
    [isNull |-> TRUE, fields |-> {}, mood |-> "",
     is_image_prompt |-> FALSE, image_prompt_text |-> <<>>,
     is_code_block |-> FALSE, code_block_language |-> <<>>,
     code_block_content |-> <<>>, learned_facts |-> <<>>]

EmptyObject == [NullValue EXCEPT !.isNull = FALSE]

\* interface ParsedData: the members a header record declares
ParsedDataFields ==
    {"is_image_prompt", "image_prompt_text", "is_code_block",
     "code_block_language", "code_block_content", "learned_facts"}

\* const defaultData: ParsedData = {...}: every member present, false or empty
defaultData == [EmptyObject EXCEPT !.fields = ParsedDataFields]

MemberLexemes ==
    {"mood:'happy'",
     "is_image_prompt:true", "is_image_prompt:false",
     "image_prompt_text:''", "image_prompt_text:'cat'",
     "is_code_block:true", "is_code_block:false",
     "code_block_language:''", "code_block_language:'js'",
     "code_block_content:''", "code_block_content:'x=1'",
     "learned_facts:[]", "learned_facts:['likes tea']"}

\* the object v with the member spelled by lexeme m set (a repeated name: the last wins)
SetMember(v, m) ==
    CASE m = "mood:'happy'" ->
            [v EXCEPT !.fields = @ \cup {"mood"}, !.mood = "happy"]
      [] m = "is_image_prompt:true" ->
            [v EXCEPT !.fields = @ \cup {"is_image_prompt"}, !.is_image_prompt = TRUE]
      [] m = "is_image_prompt:false" ->
            [v EXCEPT !.fields = @ \cup {"is_image_prompt"}, !.is_image_prompt = FALSE]
      [] m = "image_prompt_text:''" ->
            [v EXCEPT !.fields = @ \cup {"image_prompt_text"}, !.image_prompt_text = <<>>]
      [] m = "image_prompt_text:'cat'" ->
            [v EXCEPT !.fields = @ \cup {"image_prompt_text"}, !.image_prompt_text = <<"cat">>]
      [] m = "is_code_block:true" ->
            [v EXCEPT !.fields = @ \cup {"is_code_block"}, !.is_code_block = TRUE]
      [] m = "is_code_block:false" ->
            [v EXCEPT !.fields = @ \cup {"is_code_block"}, !.is_code_block = FALSE]
      [] m = "code_block_language:''" ->
            [v EXCEPT !.fields = @ \cup {"code_block_language"}, !.code_block_language = <<>>]
      [] m = "code_block_language:'js'" ->
            [v EXCEPT !.fields = @ \cup {"code_block_language"}, !.code_block_language = <<"js">>]
      [] m = "code_block_content:''" ->
            [v EXCEPT !.fields = @ \cup {"code_block_content"}, !.code_block_content = <<>>]
      [] m = "code_block_content:'x=1'" ->
            [v EXCEPT !.fields = @ \cup {"code_block_content"}, !.code_block_content = <<"x=1">>]
      [] m = "learned_facts:[]" ->
            [v EXCEPT !.fields = @ \cup {"learned_facts"}, !.learned_facts = <<>>]
      [] m = "learned_facts:['likes tea']" ->
            [v EXCEPT !.fields = @ \cup {"learned_facts"}, !.learned_facts = << <<"likes tea">> >>]
      [] OTHER -> v

\* between the braces: members only (a member lexeme stands for the member and the
\* comma that sets it off from the next)
MembersOK(ms) == \A i \in 1..Len(ms) : ms[i] \in MemberLexemes

RECURSIVE ReadMembers(_, _)
ReadMembers(v, ms) ==
    IF ms = <<>> THEN v ELSE ReadMembers(SetMember(v, Head(ms)), Tail(ms))

\* JSON.parse(jsonString): ok = FALSE models the SyntaxError it throws.
\* White space between lexemes is skipped, as JSON allows.
JSONParse(jsonString) ==
    LET s == SelectSeq(jsonString, LAMBDA u : ~IsSpace(u))
        inner == SubSeq(s, 2, Len(s) - 1)
    IN IF s = <<"null">> THEN [ok |-> TRUE, value |-> NullValue]
       ELSE IF Len(s) >= 2 /\ s[1] = "{" /\ s[Len(s)] = "}"
                 /\ MembersOK(inner)
            THEN [ok |-> TRUE, value |-> ReadMembers(EmptyObject, inner)]
       ELSE [ok |-> FALSE, value |-> NullValue]

\* ------------------------------------------------------------------ callbacks
Event(type, text, data) == [type |-> type, text |-> text, data |-> data]
OnData(data) == Event("onData", <<>>, data)
OnChunk(text) == Event("onChunk", text, NullValue)
OnImageRequired(prompt) == Event("onImageRequired", prompt, NullValue)
OnComplete == Event("onComplete", <<>>, NullValue)
OnError == Event("onError", <<>>, NullValue)

\* App.tsx onData: `data.learned_facts.length` throws a TypeError when data is null
\* or carries no learned_facts; nothing else in the handler throws.
OnDataThrows(data) == data.isNull \/ "learned_facts" \notin data.fields

\* ------------------------------------------------------------------ decoder
\* (mutant) buffer = chunkText: the fragments are not accumulated
Accumulate_Overwrite(buf, chunk) == chunk

\* buffer += chunkText
Accumulate(buf, chunk) == buf \o chunk

\* const jsonString = bufferParts[0]
JsonString(buf) == Split(buf, separator)[1]

\* (mutant) the remainder is the second piece only: it ends at the next separator
FirstTextChunk_SecondPiece(buf) == Split(buf, separator)[2]

\* const firstTextChunk = bufferParts.slice(1).join(separator)
FirstTextChunk(buf) == Join(Tail(Split(buf, separator)), separator)

\* (mutant) the flag alone decides
ImageRequested_FlagOnly(parsedData) == parsedData.is_image_prompt

\* parsedData.is_image_prompt && parsedData.image_prompt_text
ImageRequested(parsedData) ==
    parsedData.is_image_prompt /\ parsedData.image_prompt_text # <<>>

\* (mutant) the remainder is emitted even when it is empty
EmitFirstTextChunk_Always(evs, firstTextChunk) == Append(evs, OnChunk(firstTextChunk))

\* if (firstTextChunk) { callbacks.onChunk(firstTextChunk); }
EmitFirstTextChunk(evs, firstTextChunk) ==
    IF firstTextChunk # <<>> THEN Append(evs, OnChunk(firstTextChunk)) ELSE evs

\* (mutant) the fallback emits the text after the separator only
ParseFallback_BodyOnly(st, buf, evs) ==
    [st EXCEPT !.buffer = buf, !.jsonParsed = TRUE,
               !.events = Append(evs, OnChunk(FirstTextChunk(buf)))]

\* (mutant) the fallback leaves jsonParsed false: the next fragment is parsed again
ParseFallback_NoMark(st, buf, evs) ==
    [st EXCEPT !.buffer = buf, !.events = Append(evs, OnChunk(buf))]

\* the catch block of the inner try: the whole buffer becomes text
ParseFallback(st, buf, evs) ==
    [st EXCEPT !.buffer = buf, !.jsonParsed = TRUE, !.events = Append(evs, OnChunk(buf))]

\* (mutant) the `return` after onImageRequired is missing: the loop goes on
ParseHeader_NoReturn(st, buf) ==
    LET parsed == JSONParse(JsonString(buf))
        parsedData == parsed.value
        afterData == Append(st.events, OnData(parsedData))
    IN IF ~parsed.ok THEN ParseFallback(st, buf, st.events)
       ELSE IF OnDataThrows(parsedData) THEN ParseFallback(st, buf, afterData)
       ELSE IF parsedData.isNull THEN ParseFallback(st, buf, afterData)
       ELSE IF ImageRequested(parsedData)
            THEN [st EXCEPT !.buffer = buf, !.jsonParsed = TRUE,
                            !.events = EmitFirstTextChunk(
                                Append(afterData, OnImageRequired(parsedData.image_prompt_text)),
                                FirstTextChunk(buf))]
       ELSE [st EXCEPT !.buffer = buf, !.jsonParsed = TRUE,
                       !.events = EmitFirstTextChunk(afterData, FirstTextChunk(buf))]

\* the try block entered once the separator is in the buffer, and its catch
ParseHeader(st, buf) ==
    LET parsed == JSONParse(JsonString(buf))
        parsedData == parsed.value
        afterData == Append(st.events, OnData(parsedData))
    IN IF ~parsed.ok THEN ParseFallback(st, buf, st.events)
       ELSE IF OnDataThrows(parsedData) THEN ParseFallback(st, buf, afterData)
       ELSE IF parsedData.isNull THEN ParseFallback(st, buf, afterData)
       ELSE IF ImageRequested(parsedData)
            THEN [st EXCEPT !.buffer = buf, !.jsonParsed = TRUE, !.returned = TRUE,
                            !.events = Append(afterData,
                                              OnImageRequired(parsedData.image_prompt_text))]
       ELSE [st EXCEPT !.buffer = buf, !.jsonParsed = TRUE,
                       !.events = EmitFirstTextChunk(afterData, FirstTextChunk(buf))]

\* (mutant) a fragment is passed on as text while the separator is still awaited
ProcessChunk_Eager(st, chunk) ==
    IF st.jsonParsed
    THEN [st EXCEPT !.events = Append(@, OnChunk(chunk))]
    ELSE LET buf == Accumulate(st.buffer, chunk)
         IN IF Includes(buf, separator)
            THEN ParseHeader(st, buf)
            ELSE [st EXCEPT !.buffer = buf, !.events = Append(@, OnChunk(chunk))]

\* one iteration of `for await (const chunk of responseStream)`
ProcessChunk(st, chunk) ==
    IF st.jsonParsed
    THEN [st EXCEPT !.events = Append(@, OnChunk(chunk))]
    ELSE LET buf == Accumulate(st.buffer, chunk)
         IN IF Includes(buf, separator)
            THEN ParseHeader(st, buf)
            ELSE [st EXCEPT !.buffer = buf]

\* (mutant) the fallback does not look at jsonParsed
NeedsFallback_IgnoresParsed(st) == Trim(st.buffer) # <<>>

\* if (!jsonParsed && buffer.trim())
NeedsFallback(st) == ~st.jsonParsed /\ Trim(st.buffer) # <<>>

\* (mutant) the fallback branch ends without reaching onComplete
FinishStream_NoComplete(st) ==
    IF NeedsFallback(st)
    THEN [st EXCEPT !.jsonParsed = TRUE,
                    !.events = st.events \o <<OnData(defaultData), OnChunk(st.buffer)>>]
    ELSE [st EXCEPT !.events = Append(@, OnComplete)]

\* (mutant) the fallback emits the trimmed buffer
FinishStream_Trimmed(st) ==
    IF NeedsFallback(st)
    THEN [st EXCEPT !.jsonParsed = TRUE,
                    !.events = st.events
                               \o <<OnData(defaultData), OnChunk(Trim(st.buffer)), OnComplete>>]
    ELSE [st EXCEPT !.events = Append(@, OnComplete)]

\* the code after the loop: the no-separator fallback, then onComplete
FinishStream(st) ==
    IF NeedsFallback(st)
    THEN [st EXCEPT !.jsonParsed = TRUE,
                    !.events = st.events \o <<OnData(defaultData), OnChunk(st.buffer), OnComplete>>]
    ELSE [st EXCEPT !.events = Append(@, OnComplete)]

\* let buffer = ''; let jsonParsed = false;
FreshDecoder(evs) == [buffer |-> <<>>, jsonParsed |-> FALSE, events |-> evs, returned |-> FALSE]

\* ------------------------------------------------------------------ errors
\* A thrown value: kind "ApiError" is an error object whose status and message are
\* enumerable members, "Error" a plain Error (message and stack are not enumerable),
\* "string" a thrown string.  text spells its content lexeme by lexeme.
Err(kind, text) == [kind |-> kind, text |-> text]
NoError == Err("none", <<>>)

\* new Error("API returned successfully but contained no image data.")
NoImageDataError == Err("Error", <<"API returned successfully but contained no image data.">>)

\* new Error(`${context} failed after all retries.`)
AllRetriesFailedError == Err("Error", <<"failed after all retries.">>)

RateLimitError == Err("ApiError", <<"status", "429", "RESOURCE_EXHAUSTED">>)
UnavailableError == Err("ApiError", <<"status", "503", "UNAVAILABLE">>)
InternalError == Err("ApiError", <<"status", "500">>)
BadRequestError == Err("ApiError", <<"status", "400", "INVALID_ARGUMENT">>)
NotFoundError == Err("ApiError", <<"status", "404">>)
PlainUnavailableError == Err("Error", <<"service", "unavailable">>)
ThrownString == Err("string", <<"model", "is", "Unavailable">>)
NetworkError == Err("Error", <<"Failed to fetch">>)

\* errors a remote call can reject with
Errors ==
    {RateLimitError, UnavailableError, InternalError, BadRequestError, NotFoundError,
     PlainUnavailableError, ThrownString, NetworkError}

\* (typeof error === 'object' && error !== null) ? JSON.stringify(error) : String(error)
\* JSON.stringify writes the enumerable members only: "{}" for a plain Error.
ErrorString(error) ==
    IF error.kind = "ApiError" THEN <<"{">> \o error.text \o <<"}">>
    ELSE IF error.kind = "Error" THEN <<"{}">>
    ELSE error.text

\* lexemes in which /429|500|503|RESOURCE_EXHAUSTED|unavailable/i finds a match
RetriablePattern ==
    {"429", "500", "503", "RESOURCE_EXHAUSTED", "resource_exhausted",
     "unavailable", "UNAVAILABLE", "Unavailable"}

\* (mutant) the test reads the error's status family too broadly: any status retries
IsRetriableError_AnyError(errorString) == Len(errorString) > 0

\* const isRetriableError = /429|500|503|RESOURCE_EXHAUSTED|unavailable/i.test(errorString)
IsRetriableError(errorString) ==
    \E i \in 1..Len(errorString) : errorString[i] \in RetriablePattern

\* ------------------------------------------------------------------ retryWithBackoff
LogEntry(type, att, ms, error) == [type |-> type, attempt |-> att, ms |-> ms, error |-> error]

\* (mutant) off by one: attempt <= maxRetries
LoopCondition_OffByOne(att, mr) == att <= mr

\* for (...; attempt < maxRetries; ...)
LoopCondition(att, mr) == att < mr

\* (mutant) the class of the error is not looked at
ShouldRetry_AnyError(error, att, mr) == att < mr - 1

\* if (isRetriableError && attempt < maxRetries - 1)
ShouldRetry(error, att, mr) == IsRetriableError(ErrorString(error)) /\ att < mr - 1

\* (mutant) the delay is not doubled
NextDelay_Constant(d) == d

\* delay *= 2
NextDelay(d) == d * 2

\* the loop head: invoke apiCall for attempt att, or fall out of the loop and throw
EnterAttempt(att, mr, log) ==
    IF LoopCondition(att, mr)
    THEN /\ r_pc' = "awaiting"
         /\ r_log' = Append(log, LogEntry("invoke", att, 0, NoError))
         /\ r_error' = NoError
    ELSE /\ r_pc' = "thrown"
         /\ r_log' = log
         /\ r_error' = AllRetriesFailedError

\* retryWithBackoff(apiCall, mr, d, context) up to its first await
RetryWithBackoff(op, mr, d) ==
    /\ r_op' = op
    /\ maxRetries' = mr
    /\ initialDelay' = d
    /\ delay' = d
    /\ attempt' = 0
    /\ r_result' = "none"
    /\ EnterAttempt(0, mr, <<>>)

\* what one invocation of the wrapped apiCall can settle with
Outcome(ok, value, error) == [ok |-> ok, value |-> value, error |-> error]

\* the apiCall of generateImageWithRetry, given how ai.models.generateImages settled:
\* a rejection passes through, a response without images throws NoImageDataError
ImageApiCall(response) ==
    IF response.kind = "rejected" THEN Outcome(FALSE, "none", response.error)
    ELSE IF response.images > 0 THEN Outcome(TRUE, "imageBytes", NoError)
    ELSE Outcome(FALSE, "none", NoImageDataError)

ImageResponses ==
    {[kind |-> "rejected", images |-> 0, error |-> e] : e \in Errors}
    \cup {[kind |-> "fulfilled", images |-> n, error |-> NoError] : n \in {0, 1}}

StreamOpenErrors == {UnavailableError, BadRequestError}

Outcomes(op) ==
    IF op = "image" THEN {ImageApiCall(r) : r \in ImageResponses}
    ELSE IF op = "stream"
         THEN {Outcome(TRUE, "stream", NoError)}
              \cup {Outcome(FALSE, "none", e) : e \in StreamOpenErrors}
    ELSE {Outcome(TRUE, "value", NoError)} \cup {Outcome(FALSE, "none", e) : e \in Errors}

\* `return await apiCall()` settles: return its value, or run the catch block
ApiCallSettles ==
    /\ r_pc = "awaiting"
    /\ \E out \in Outcomes(r_op) :
          IF out.ok
          THEN /\ r_pc' = "returned"
               /\ r_result' = out.value
               /\ r_log' = Append(r_log, LogEntry("ok", attempt, 0, NoError))
               /\ UNCHANGED r_error
          ELSE IF ShouldRetry(out.error, attempt, maxRetries)
          THEN /\ r_pc' = "sleeping"
               /\ r_log' = r_log \o <<LogEntry("fail", attempt, 0, out.error),
                                      LogEntry("sleep", attempt, delay, NoError)>>
               /\ UNCHANGED <<r_error, r_result>>
          ELSE /\ r_pc' = "thrown"
               /\ r_error' = out.error
               /\ r_log' = Append(r_log, LogEntry("fail", attempt, 0, out.error))
               /\ UNCHANGED r_result
    /\ UNCHANGED <<r_op, maxRetries, initialDelay, attempt, delay>>
    /\ UNCHANGED decoderVars
    /\ UNCHANGED appVars
    /\ UNCHANGED voiceVars

\* the sleep(delay) timer fires: delay *= 2; attempt++; back to the loop head
TimerFires ==
    /\ r_pc = "sleeping"
    /\ delay' = NextDelay(delay)
    /\ attempt' = attempt + 1
    /\ EnterAttempt(attempt + 1, maxRetries, r_log)
    /\ UNCHANGED <<r_op, maxRetries, initialDelay, r_result>>
    /\ UNCHANGED decoderVars
    /\ UNCHANGED appVars
    /\ UNCHANGED voiceVars

\* initialDelay values of the call sites (getInitialGreeting / sendMessageStream: 2000,
\* generateImageWithRetry: 10000) and the default 1000
Delays == {1000, 2000, 10000}

\* a call of retryWithBackoff on some remote operation
RetryCall ==
    /\ r_pc = "idle"
    /\ \E mr \in 0..MaxRetriesBound, d \in Delays : RetryWithBackoff("generic", mr, d)
    /\ UNCHANGED decoderVars
    /\ UNCHANGED appVars
    /\ UNCHANGED voiceVars

\* generateImage(prompt) -> generateImageWithRetry(prompt) -> retryWithBackoff(apiCall, 3, 10000)
GenerateImage ==
    /\ r_pc = "idle"
    /\ RetryWithBackoff("image", 3, 10000)
    /\ UNCHANGED decoderVars
    /\ UNCHANGED appVars
    /\ UNCHANGED voiceVars

\* ------------------------------------------------------------------ the turns the remote can stream
Obj(ms) == <<"{">> \o ms \o <<"}">>

NormalHeader ==
    Obj(<<"mood:'happy'", "is_image_prompt:false", "image_prompt_text:''", "is_code_block:false",
          "code_block_language:''", "code_block_content:''", "learned_facts:[]">>)
CodeHeader ==
    Obj(<<"is_image_prompt:false", "image_prompt_text:''", "is_code_block:true",
          "code_block_language:'js'", "code_block_content:'x=1'", "learned_facts:['likes tea']">>)
ImageHeader ==
    Obj(<<"is_image_prompt:true", "image_prompt_text:'cat'", "is_code_block:false",
          "code_block_language:''", "code_block_content:''", "learned_facts:[]">>)
ImageNoPromptHeader ==
    Obj(<<"is_image_prompt:true", "image_prompt_text:''", "is_code_block:false",
          "code_block_language:''", "code_block_content:''", "learned_facts:[]">>)
PromptNoFlagHeader ==
    Obj(<<"is_image_prompt:false", "image_prompt_text:'cat'", "is_code_block:false",
          "code_block_language:''", "code_block_content:''", "learned_facts:[]">>)
PaddedHeader == <<" ">> \o NormalHeader \o <<" ">>
NoFactsHeader == Obj(<<"mood:'happy'", "is_image_prompt:false">>)
ImageNoFactsHeader == Obj(<<"is_image_prompt:true", "image_prompt_text:'cat'">>)
FactsOnlyHeader == Obj(<<"learned_facts:[]">>)
EmptyObjectHeader == <<"{", "}">>
NullHeader == <<"null">>
TruncatedHeader == <<"{", "is_image_prompt:false">>
ProseHeader == <<"H", "i">>

Headers ==
    {NormalHeader, CodeHeader, ImageHeader, ImageNoPromptHeader, PromptNoFlagHeader,
     PaddedHeader, NoFactsHeader, ImageNoFactsHeader, FactsOnlyHeader, EmptyObjectHeader,
     NullHeader, TruncatedHeader, ProseHeader, <<>>}

BodyChars == {"H", " "}

\* the texts of at most n characters
Texts(n) == UNION {[1..k -> BodyChars] : k \in 0..n}

\* header, separator, body
SeparatedTurns == {h \o separator \o b : h \in Headers, b \in Texts(MaxBody)}

\* no separator at all, or all of it but its last character
UnseparatedTurns ==
    {h \o b : h \in Headers, b \in Texts(MaxBody)}
    \cup {h \o SubSeq(separator, 1, Len(separator) - 1) \o b :
            h \in {NormalHeader, <<>>}, b \in Texts(1)}

\* the separator a second time, inside the body
TwiceSeparatedTurns ==
    {h \o separator \o b \o separator \o c :
        h \in {NormalHeader, TruncatedHeader}, b \in Texts(MaxBody - 1), c \in {<<>>}}

TurnStrings == SeparatedTurns \cup UnseparatedTurns \cup TwiceSeparatedTurns

\* ------------------------------------------------------------------ sendMessageStreamToAI
NoInputText == <<"I see you didn't send a message or image. What's on your mind?">>

Decoder == [buffer |-> buffer, jsonParsed |-> jsonParsed, events |-> events, returned |-> FALSE]

\* the loading flag of App.tsx and how often the turn has cleared it
App == [isLoading |-> isLoading, loadingCleared |-> loadingCleared]

\* setIsLoading(false)
LoadingCleared(app) == [isLoading |-> FALSE, loadingCleared |-> app.loadingCleared + 1]

\* App's onComplete: setIsLoading(false); cycleMood()
OnCompleteHandler(app) == LoadingCleared(app)

\* (mutant) the error handler shows its message and leaves the flag set
OnErrorHandler_KeepsLoading(app) == app

\* App's onError: the error text is put in the placeholder; setIsLoading(false); cycleMood()
OnErrorHandler(app) == LoadingCleared(app)

\* the finally block of handleImageGeneration: setIsLoading(false); cycleMood()
ImageGenerationFinally(app) == LoadingCleared(app)

\* handleSendMessage: setIsLoading(true), then sendMessageStreamToAI up to the await of
\* retryWithBackoff(() => chat.sendMessageStream(...), 3, 2000)
SendMessage ==
    /\ d_pc = "init"
    /\ r_pc = "idle"
    /\ \E hasMessage \in BOOLEAN, hasImage \in BOOLEAN :
          IF ~hasMessage /\ ~hasImage
          THEN /\ events' = <<OnChunk(NoInputText), OnComplete>>
               /\ d_pc' = "done"
               /\ d_exit' = "noinput"
               /\ isLoading' = OnCompleteHandler([App EXCEPT !.isLoading = TRUE]).isLoading
               /\ loadingCleared' = OnCompleteHandler(App).loadingCleared
               /\ UNCHANGED retryVars
          ELSE /\ RetryWithBackoff("stream", 3, 2000)
               /\ d_pc' = "opening"
               /\ isLoading' = TRUE
               /\ UNCHANGED <<d_exit, events, loadingCleared>>
    /\ UNCHANGED i_pc
    /\ UNCHANGED <<full, pos, chunkText, buffer, jsonParsed>>
    /\ UNCHANGED voiceVars

\* retryWithBackoff returned the response stream (its frame, and the record of what
\* it did, are gone): the locals of the loop are set up
StreamOpens ==
    /\ d_pc = "opening"
    /\ r_pc = "returned"
    /\ r_pc' = "idle"
    /\ r_op' = "none"
    /\ maxRetries' = 0
    /\ initialDelay' = 0
    /\ attempt' = 0
    /\ delay' = 0
    /\ r_log' = <<>>
    /\ r_error' = NoError
    /\ r_result' = "none"
    /\ full' \in TurnStrings
    /\ pos' = 0
    /\ chunkText' = <<>>
    /\ buffer' = FreshDecoder(events).buffer
    /\ jsonParsed' = FreshDecoder(events).jsonParsed
    /\ d_pc' = "streaming"
    /\ UNCHANGED <<d_exit, events>>
    /\ UNCHANGED appVars
    /\ UNCHANGED voiceVars

\* (mutant) the outer catch reports the error in place of what was emitted
OuterCatch_DropsEvents(evs) == <<OnError>>

\* catch (error) { callbacks.onError(error as Error); }
OuterCatch(evs) == Append(evs, OnError)

\* retryWithBackoff threw: the outer catch reports it
OpenFails ==
    /\ d_pc = "opening"
    /\ r_pc = "thrown"
    /\ events' = OuterCatch(events)
    /\ isLoading' = OnErrorHandler(App).isLoading
    /\ loadingCleared' = OnErrorHandler(App).loadingCleared
    /\ UNCHANGED i_pc
    /\ d_pc' = "done"
    /\ d_exit' = "error"
    /\ UNCHANGED <<full, pos, chunkText, buffer, jsonParsed>>
    /\ UNCHANGED retryVars
    /\ UNCHANGED voiceVars

\* the stream yields its next fragment, any non-empty piece of what is left
\* (at the `return` of the image request the loop is left and its chunk is gone; App's
\* onImageRequired has started handleImageGeneration, which runs up to its first await)
FeedChunk ==
    /\ d_pc = "streaming"
    /\ pos < Len(full)
    /\ \E n \in 1..(Len(full) - pos) :
          LET st == ProcessChunk(Decoder, SubSeq(full, pos + 1, pos + n))
          IN /\ pos' = pos + n
             /\ chunkText' = IF st.returned THEN <<>> ELSE SubSeq(full, pos + 1, pos + n)
             /\ buffer' = st.buffer
             /\ jsonParsed' = st.jsonParsed
             /\ events' = st.events
             /\ d_pc' = IF st.returned THEN "done" ELSE "streaming"
             /\ d_exit' = IF st.returned THEN "image" ELSE d_exit
             /\ IF st.returned
                THEN /\ i_pc' = "generating"
                     /\ RetryWithBackoff("image", 3, 10000)
                ELSE UNCHANGED <<i_pc, retryVars>>
    /\ UNCHANGED <<full, isLoading, loadingCleared>>
    /\ UNCHANGED voiceVars

\* the stream ends
StreamEnds ==
    /\ d_pc = "streaming"
    /\ pos = Len(full)
    /\ LET st == FinishStream(Decoder)
       IN /\ buffer' = st.buffer
          /\ jsonParsed' = st.jsonParsed
          /\ events' = st.events
    /\ isLoading' = OnCompleteHandler(App).isLoading
    /\ loadingCleared' = OnCompleteHandler(App).loadingCleared
    /\ UNCHANGED i_pc
    /\ d_pc' = "done"
    /\ d_exit' = "eos"
    /\ UNCHANGED <<full, pos, chunkText>>
    /\ UNCHANGED retryVars
    /\ UNCHANGED voiceVars

\* iterating the stream throws: the outer catch reports it
StreamFails ==
    /\ d_pc = "streaming"
    /\ events' = OuterCatch(events)
    /\ isLoading' = OnErrorHandler(App).isLoading
    /\ loadingCleared' = OnErrorHandler(App).loadingCleared
    /\ UNCHANGED i_pc
    /\ d_pc' = "done"
    /\ d_exit' = "error"
    /\ UNCHANGED <<full, pos, chunkText, buffer, jsonParsed>>
    /\ UNCHANGED retryVars
    /\ UNCHANGED voiceVars

\* the frame of a retryWithBackoff call that has settled is gone
RetryFrameGone ==
    /\ r_pc' = "idle"
    /\ r_op' = "none"
    /\ maxRetries' = 0
    /\ initialDelay' = 0
    /\ attempt' = 0
    /\ delay' = 0
    /\ r_log' = <<>>
    /\ r_error' = NoError
    /\ r_result' = "none"

\* handleImageGeneration: generateImage(prompt) returned the image; imageToAscii is awaited
ImageGenerated ==
    /\ i_pc = "generating"
    /\ r_pc = "returned"
    /\ i_pc' = "converting"
    /\ RetryFrameGone
    /\ UNCHANGED <<isLoading, loadingCleared>>
    /\ UNCHANGED decoderVars
    /\ UNCHANGED voiceVars

\* handleImageGeneration: generateImage(prompt) threw; the catch block removes the
\* placeholder message, then the finally block
ImageGenerationFails ==
    /\ i_pc = "generating"
    /\ r_pc = "thrown"
    /\ i_pc' = "done"
    /\ RetryFrameGone
    /\ isLoading' = ImageGenerationFinally(App).isLoading
    /\ loadingCleared' = ImageGenerationFinally(App).loadingCleared
    /\ UNCHANGED decoderVars
    /\ UNCHANGED voiceVars

\* handleImageGeneration: imageToAscii settled, with the picture or with an error for the
\* catch block; either way the finally block
AsciiSettles ==
    /\ i_pc = "converting"
    /\ i_pc' = "done"
    /\ isLoading' = ImageGenerationFinally(App).isLoading
    /\ loadingCleared' = ImageGenerationFinally(App).loadingCleared
    /\ UNCHANGED retryVars
    /\ UNCHANGED decoderVars
    /\ UNCHANGED voiceVars

\* ------------------------------------------------------------------ specifications
Init ==
    /\ r_pc = "idle"
    /\ r_op = "none"
    /\ maxRetries = 0
    /\ initialDelay = 0
    /\ attempt = 0
    /\ delay = 0
    /\ r_log = <<>>
    /\ r_error = NoError
    /\ r_result = "none"
    /\ d_pc = "init"
    /\ d_exit = "none"
    /\ full = <<>>
    /\ pos = 0
    /\ chunkText = <<>>
    /\ buffer = <<>>
    /\ jsonParsed = FALSE
    /\ events = <<>>
    /\ isLoading = FALSE
    /\ loadingCleared = 0
    /\ i_pc = "none"
    /\ pcm_pc = "idle"
    /\ inputData = <<>>
    /\ int16 = <<>>
    /\ blobData = <<>>
    /\ channelData = <<>>
    /\ currentTime = 0
    /\ nextStartTime = 0
    /\ sources = {}
    /\ p_pc = "idle"
    /\ p_duration = 0
    /\ p_calledAt = 0
    /\ stopCount = 0
    /\ started = <<>>
    /\ l_pc = "new"
    /\ mediaStream = "null"
    /\ sessionPromise = "null"
    /\ channel = "none"
    /\ processorNode = "null"
    /\ stop_pc = "none"
    /\ currentInputTranscription = <<>>
    /\ currentOutputTranscription = <<>>
    /\ calls = <<>>
    /\ sent = <<>>
    /\ received = 0
    /\ message = [outputTranscription |-> [present |-> FALSE, text |-> <<>>],
                  inputTranscription |-> [present |-> FALSE, text |-> <<>>],
                  turnComplete |-> FALSE, audio |-> FALSE, functionCalls |-> <<>>]
    /\ frames = 0
    /\ isVoiceSessionActive = FALSE
    /\ alerted = FALSE

\* one call of retryWithBackoff, generic or from generateImage
NextRetry == RetryCall \/ GenerateImage \/ ApiCallSettles \/ TimerFires
SpecRetry == Init /\ [][NextRetry]_vars

\* one chat turn through sendMessageStreamToAI
NextDecoder ==
    \/ SendMessage \/ ApiCallSettles \/ TimerFires \/ StreamOpens \/ OpenFails
    \/ FeedChunk \/ StreamEnds \/ StreamFails
    \/ ImageGenerated \/ ImageGenerationFails \/ AsciiSettles
SpecDecoder == Init /\ [][NextDecoder]_vars

\* the same turn when the remote calls settle, the timers fire, the continuations of the
\* awaits are run and the response stream comes to its end or fails
SpecTurn ==
    /\ SpecDecoder
    /\ WF_vars(ApiCallSettles)
    /\ WF_vars(TimerFires)
    /\ WF_vars(StreamOpens \/ OpenFails)
    /\ WF_vars(StreamEnds \/ StreamFails)
    /\ WF_vars(ImageGenerated \/ ImageGenerationFails \/ AsciiSettles)

\* ------------------------------------------------------------------ PCM frames
\* The amplitude of a sample is a fraction n / AmplitudeGrid, written as its numerator n:
\* the grid is twice as fine as the 16-bit code, so it holds the half steps where
\* rounding and truncating differ, and both ends -1.0 and +1.0.
Int16Scale == 32768
Int16Modulus == 2 * Int16Scale
StepsPerCode == 2     \* amplitude steps between two neighbouring 16-bit codes
AmplitudeGrid == StepsPerCode * Int16Scale
MaxFrame == 2         \* longest frame, in samples

Abs(x) == IF x < 0 THEN -x ELSE x

\* the integer part of a / b (b > 0), towards zero: the first step of ToInt16
Truncate(a, b) == IF a >= 0 THEN a \div b ELSE -((-a) \div b)

\* the rest of ToInt16: modulo 2^16, read as a signed 16-bit integer
WrapInt16(x) == ((x + Int16Scale) % Int16Modulus) - Int16Scale

\* int16[i] = data[i] * 32768;  (the store into the Int16Array converts with ToInt16)
\* (n / AmplitudeGrid) * 32768 is n / StepsPerCode
EncodeSample(n) == WrapInt16(Truncate(n, StepsPerCode))

\* new Uint8Array(int16.buffer): two bytes per sample, low byte first
LowByte(v) == (v % Int16Modulus) % 256
HighByte(v) == (v % Int16Modulus) \div 256
BytesOf(ints) ==
    [k \in 1..(2 * Len(ints)) |->
        IF k % 2 = 1 THEN LowByte(ints[(k + 1) \div 2]) ELSE HighByte(ints[k \div 2])]

\* new Int16Array(data.buffer): the same bytes read back as signed 16-bit integers
Int16Of(bytes) ==
    [i \in 1..(Len(bytes) \div 2) |-> WrapInt16(bytes[2 * i - 1] + 256 * bytes[2 * i])]

\* createBlob(data), up to the bytes that encode() wraps into the blob
CreateBlob(data) ==
    LET ints == [i \in 1..Len(data) |-> EncodeSample(data[i])]
    IN [int16 |-> ints, data |-> BytesOf(ints)]

\* decodeAudioData(data, ctx, 24000, 1): channelData[i] = dataInt16[i] / 32768.0, written
\* as the numerator over Int16Scale (the quotient is exact in floating point)
DecodeAudioData(bytes) == Int16Of(bytes)

\* amplitudes in [-1.0, 1.0]: both ends, their neighbours, the middle, the half steps
Amplitudes ==
    {-AmplitudeGrid, 1 - AmplitudeGrid, -Int16Scale - 1, -3, -1, 0, 1, 3,
     Int16Scale, AmplitudeGrid - 2, AmplitudeGrid - 1, AmplitudeGrid}

Frames == UNION {[1..k -> Amplitudes] : k \in 1..MaxFrame}

\* processorNode.onaudioprocess: a frame of captured samples goes through createBlob
EncodeFrame ==
    /\ pcm_pc = "idle"
    /\ \E data \in Frames :
          /\ inputData' = data
          /\ int16' = CreateBlob(data).int16
          /\ blobData' = CreateBlob(data).data
    /\ pcm_pc' = "encoded"
    /\ UNCHANGED channelData
    /\ UNCHANGED <<textVars, playerVars, liveVars>>

\* the bytes of the frame go through decodeAudioData
DecodeFrame ==
    /\ pcm_pc = "encoded"
    /\ channelData' = DecodeAudioData(blobData)
    /\ pcm_pc' = "decoded"
    /\ UNCHANGED <<inputData, int16, blobData>>
    /\ UNCHANGED <<textVars, playerVars, liveVars>>

NextPcm == EncodeFrame \/ DecodeFrame
SpecPcm == Init /\ [][NextPcm]_vars

\* ------------------------------------------------------------------ AudioPlayer
MaxPlays == 3         \* most play() calls in one run
MaxClock == 2         \* last tick of audioContext.currentTime

Max(a, b) == IF a >= b THEN a ELSE b

\* audioBuffer.duration of the buffers handed to play(), in ticks
Durations == {1, 2}

\* this.nextStartTime = Math.max(this.nextStartTime, this.audioContext.currentTime)
CursorAtCall(cursor, now) == Max(cursor, now)

\* this.nextStartTime += audioBuffer.duration
AdvanceCursor_Stays(cursor, duration) == cursor
AdvanceCursor(cursor, duration) == cursor + duration

\* one source.start(when): the call was made at tick calledAt and the source was started at
\* tick startedAt, after stopCount calls of stopAll()
Started(when, duration, calledAt, startedAt) ==
    [when |-> when, duration |-> duration, calledAt |-> calledAt, startedAt |-> startedAt,
     stops |-> stopCount, state |-> "scheduled"]

\* a source started in the past plays at once
PlaysFrom(src) == Max(src.when, src.startedAt)

\* the audio clock moves on; nothing ties it to the jobs of the page, so it may also move
\* between the two halves of play()
Tick ==
    /\ currentTime < MaxClock
    /\ currentTime' = currentTime + 1
    /\ UNCHANGED <<nextStartTime, sources, p_pc, p_duration, p_calledAt, stopCount, started>>
    /\ UNCHANGED <<textVars, pcmVars, liveVars>>

\* play(audioData), up to its await.  decodeAudioData suspends nowhere itself, so the rest
\* of play() runs from the microtask queue of the same job: no other call on the player
\* comes in between.
Play ==
    /\ p_pc = "idle"
    /\ Len(started) < MaxPlays
    /\ \E d \in Durations : p_duration' = d
    /\ nextStartTime' = CursorAtCall(nextStartTime, currentTime)
    /\ p_calledAt' = currentTime
    /\ p_pc' = "decoding"
    /\ UNCHANGED <<currentTime, sources, stopCount, started>>
    /\ UNCHANGED <<textVars, pcmVars, liveVars>>

\* play() after its await: source.start(this.nextStartTime); the cursor moves; sources.add;
\* the call returns and its locals are gone
PlayResumes ==
    /\ p_pc = "decoding"
    /\ started' = Append(started, Started(nextStartTime, p_duration, p_calledAt, currentTime))
    /\ nextStartTime' = AdvanceCursor(nextStartTime, p_duration)
    /\ sources' = sources \cup {Len(started) + 1}
    /\ p_pc' = "idle"
    /\ p_duration' = 0
    /\ p_calledAt' = 0
    /\ UNCHANGED <<currentTime, stopCount>>
    /\ UNCHANGED <<textVars, pcmVars, liveVars>>

\* a source has played to its end: its 'ended' listener runs sources.delete(source)
SourceEnded ==
    /\ p_pc = "idle"
    /\ \E i \in 1..Len(started) :
          /\ started[i].state = "scheduled"
          /\ currentTime >= PlaysFrom(started[i]) + started[i].duration
          /\ started' = [started EXCEPT ![i].state = "ended"]
          /\ sources' = sources \ {i}
    /\ UNCHANGED <<currentTime, nextStartTime, p_pc, p_duration, p_calledAt, stopCount>>
    /\ UNCHANGED <<textVars, pcmVars, liveVars>>

\* what stopAll() leaves in the two fields: sources.clear(); nextStartTime = 0
StoppedPlayer_KeepsSources == [sources |-> sources, nextStartTime |-> 0]
StoppedPlayer_KeepsCursor == [sources |-> {}, nextStartTime |-> nextStartTime]
StoppedPlayer == [sources |-> {}, nextStartTime |-> 0]

\* stopAll(): source.stop() on every tracked source, then the two fields
StopAll ==
    /\ p_pc = "idle"
    /\ stopCount < MaxPlays
    /\ started' = [i \in 1..Len(started) |->
                      IF i \in sources THEN [started[i] EXCEPT !.state = "stopped"] ELSE started[i]]
    /\ sources' = StoppedPlayer.sources
    /\ nextStartTime' = StoppedPlayer.nextStartTime
    /\ stopCount' = stopCount + 1
    /\ UNCHANGED <<currentTime, p_pc, p_duration, p_calledAt>>
    /\ UNCHANGED <<textVars, pcmVars, liveVars>>

NextPlayer == Tick \/ Play \/ PlayResumes \/ SourceEnded \/ StopAll
SpecPlayer == Init /\ [][NextPlayer]_vars

\* ------------------------------------------------------------------ LiveSession
MaxMessages == 3      \* most server messages handled in one session
MaxAudioFrames == 2   \* most captured frames handled in one session

\* the callbacks of LiveSessionCallbacks, as App.tsx sees them invoked
Call(type, text, isFinal, sender, id) ==
    [type |-> type, text |-> text, isFinal |-> isFinal, sender |-> sender, id |-> id]
OnTranscriptionUpdate(text, isFinal, sender) == Call("onTranscriptionUpdate", text, isFinal, sender, 0)
OnAudioUpdate == Call("onAudioUpdate", <<>>, FALSE, "none", 0)
OnToolCall(id) == Call("onToolCall", <<>>, FALSE, "none", id)
OnSessionClose == Call("onClose", <<>>, FALSE, "none", 0)
OnSessionError == Call("onError", <<>>, FALSE, "none", 0)

\* what goes out on the channel, with what held when it went out: the state of the
\* channel, how far stop() had got, and how many callbacks had been invoked
Send(kind, id, ch, stop, after) ==
    [kind |-> kind, id |-> id, channel |-> ch, stop |-> stop, after |-> after]

\* a LiveServerMessage: the parts handleMessage looks at
Message(out, inp, turnComplete, audio, functionCalls) ==
    [outputTranscription |-> out, inputTranscription |-> inp, turnComplete |-> turnComplete,
     audio |-> audio, functionCalls |-> functionCalls]

\* a transcription part of a message: not there, or there with its text
Absent == [present |-> FALSE, text |-> <<>>]
Delta(text) == [present |-> TRUE, text |-> text]

Messages ==
    {Message(Delta(<<"a">>), Absent, FALSE, FALSE, <<>>),
     Message(Absent, Delta(<<"b">>), FALSE, FALSE, <<>>),
     Message(Absent, Absent, TRUE, FALSE, <<>>),
     Message(Delta(<<"a">>), Delta(<<"b">>), TRUE, FALSE, <<>>),
     Message(Absent, Absent, FALSE, TRUE, <<>>),
     Message(Delta(<<"a">>), Absent, FALSE, TRUE, <<>>),
     Message(Absent, Absent, FALSE, FALSE, <<1>>),
     Message(Absent, Absent, FALSE, FALSE, <<1, 2>>)}

\* (mutant) turnComplete leaves the accumulators as they are
HandleMessage_NoReset(st, m) ==
    LET out1 == IF m.outputTranscription.present
                THEN st.output \o m.outputTranscription.text ELSE st.output
        c1 == IF m.outputTranscription.present
              THEN Append(st.calls, OnTranscriptionUpdate(out1, FALSE, "AI")) ELSE st.calls
        in1 == IF m.inputTranscription.present
               THEN st.input \o m.inputTranscription.text ELSE st.input
        c2 == IF m.inputTranscription.present
              THEN Append(c1, OnTranscriptionUpdate(in1, FALSE, "USER")) ELSE c1
        c3 == IF m.turnComplete /\ in1 # <<>>
              THEN Append(c2, OnTranscriptionUpdate(in1, TRUE, "USER")) ELSE c2
        c4 == IF m.turnComplete /\ out1 # <<>>
              THEN Append(c3, OnTranscriptionUpdate(out1, TRUE, "AI")) ELSE c3
        c5 == IF m.audio THEN Append(c4, OnAudioUpdate) ELSE c4
        fcs == m.functionCalls
        c6 == c5 \o [k \in 1..Len(fcs) |-> OnToolCall(fcs[k])]
    IN [input |-> in1,
        output |-> out1,
        calls |-> c6,
        sent |-> st.sent \o [k \in 1..Len(fcs) |->
                                Send("toolResponse", fcs[k], st.channel, st.stop, Len(c6))]]

\* (mutant) only the first function call of a message is acknowledged
HandleMessage_AckFirstOnly(st, m) ==
    LET out1 == IF m.outputTranscription.present
                THEN st.output \o m.outputTranscription.text ELSE st.output
        c1 == IF m.outputTranscription.present
              THEN Append(st.calls, OnTranscriptionUpdate(out1, FALSE, "AI")) ELSE st.calls
        in1 == IF m.inputTranscription.present
               THEN st.input \o m.inputTranscription.text ELSE st.input
        c2 == IF m.inputTranscription.present
              THEN Append(c1, OnTranscriptionUpdate(in1, FALSE, "USER")) ELSE c1
        c3 == IF m.turnComplete /\ in1 # <<>>
              THEN Append(c2, OnTranscriptionUpdate(in1, TRUE, "USER")) ELSE c2
        c4 == IF m.turnComplete /\ out1 # <<>>
              THEN Append(c3, OnTranscriptionUpdate(out1, TRUE, "AI")) ELSE c3
        c5 == IF m.audio THEN Append(c4, OnAudioUpdate) ELSE c4
        fcs == m.functionCalls
        c6 == c5 \o [k \in 1..Len(fcs) |-> OnToolCall(fcs[k])]
    IN [input |-> IF m.turnComplete THEN <<>> ELSE in1,
        output |-> IF m.turnComplete THEN <<>> ELSE out1,
        calls |-> c6,
        sent |-> st.sent \o [k \in 1..(IF fcs = <<>> THEN 0 ELSE 1) |->
                                Send("toolResponse", fcs[k], st.channel, st.stop, Len(c6))]]

\* handleMessage(message), on the fields it reads and writes; this.sessionPromise is
\* resolved whenever a message comes in, so each then(...) of the tool loop sends
HandleMessage(st, m) ==
    LET out1 == IF m.outputTranscription.present
                THEN st.output \o m.outputTranscription.text ELSE st.output
        c1 == IF m.outputTranscription.present
              THEN Append(st.calls, OnTranscriptionUpdate(out1, FALSE, "AI")) ELSE st.calls
        in1 == IF m.inputTranscription.present
               THEN st.input \o m.inputTranscription.text ELSE st.input
        c2 == IF m.inputTranscription.present
              THEN Append(c1, OnTranscriptionUpdate(in1, FALSE, "USER")) ELSE c1
        c3 == IF m.turnComplete /\ in1 # <<>>
              THEN Append(c2, OnTranscriptionUpdate(in1, TRUE, "USER")) ELSE c2
        c4 == IF m.turnComplete /\ out1 # <<>>
              THEN Append(c3, OnTranscriptionUpdate(out1, TRUE, "AI")) ELSE c3
        c5 == IF m.audio THEN Append(c4, OnAudioUpdate) ELSE c4
        fcs == m.functionCalls
        c6 == c5 \o [k \in 1..Len(fcs) |-> OnToolCall(fcs[k])]
    IN [input |-> IF m.turnComplete THEN <<>> ELSE in1,
        output |-> IF m.turnComplete THEN <<>> ELSE out1,
        calls |-> c6,
        sent |-> st.sent \o [k \in 1..Len(fcs) |->
                                Send("toolResponse", fcs[k], st.channel, st.stop, Len(c6))]]

\* start() after its await of getUserMedia: a rejection leaves start() there; otherwise
\* the stream is kept and ai.live.connect is called, and its promise kept unawaited
AfterGetUserMedia_ConnectsAnyway(granted) ==
    [l_pc |-> IF granted THEN "started" ELSE "failed",
     mediaStream |-> IF granted THEN "live" ELSE "null",
     sessionPromise |-> "pending", channel |-> "connecting"]
AfterGetUserMedia(granted) ==
    IF granted
    THEN [l_pc |-> "started", mediaStream |-> "live", sessionPromise |-> "pending",
          channel |-> "connecting"]
    ELSE [l_pc |-> "failed", mediaStream |-> "null", sessionPromise |-> "null", channel |-> "none"]

\* stop() is at its await and the promise it awaits is settled: it resumes from the
\* microtask queue, before any other handler runs
StopIsNext == stop_pc = "awaiting" /\ sessionPromise \in {"resolved", "rejected"}

\* handleToggleVoiceSession with no session active: new LiveSession(...), session.start()
\* up to its await
StartCalled ==
    /\ l_pc = "new"
    /\ l_pc' = "acquiring"
    /\ UNCHANGED <<mediaStream, sessionPromise, channel, processorNode, stop_pc,
                   currentInputTranscription, currentOutputTranscription, calls, sent, received,
                   frames, isVoiceSessionActive, alerted>>
    /\ UNCHANGED <<message, textVars, pcmVars, playerVars>>

\* getUserMedia settles; start() returns or throws, and handleToggleVoiceSession goes on:
\* setIsVoiceSessionActive(true), or the catch with its alert
DeviceSettles ==
    /\ l_pc = "acquiring"
    /\ \E granted \in BOOLEAN :
          /\ l_pc' = AfterGetUserMedia(granted).l_pc
          /\ mediaStream' = AfterGetUserMedia(granted).mediaStream
          /\ sessionPromise' = AfterGetUserMedia(granted).sessionPromise
          /\ channel' = AfterGetUserMedia(granted).channel
          /\ isVoiceSessionActive' = (AfterGetUserMedia(granted).l_pc = "started")
          /\ alerted' = (AfterGetUserMedia(granted).l_pc = "failed")
    /\ UNCHANGED <<processorNode, stop_pc, currentInputTranscription, currentOutputTranscription,
                   calls, sent, received, frames>>
    /\ UNCHANGED <<message, textVars, pcmVars, playerVars>>

\* the channel opens: onopen runs setupMicrophone(this.mediaStream), whatever has become of
\* the stream, and the promise of connect resolves
ChannelOpens ==
    /\ ~StopIsNext
    /\ channel = "connecting"
    /\ channel' = "open"
    /\ processorNode' = "connected"
    /\ sessionPromise' = "resolved"
    /\ UNCHANGED <<l_pc, mediaStream, stop_pc, currentInputTranscription,
                   currentOutputTranscription, calls, sent, received, frames,
                   isVoiceSessionActive, alerted>>
    /\ UNCHANGED <<message, textVars, pcmVars, playerVars>>

\* the channel fails: onerror runs callbacks.onError.  A connect that has not opened yet
\* either rejects its promise or leaves it pending.
ChannelError ==
    /\ ~StopIsNext
    /\ channel \in {"connecting", "open"}
    /\ channel' = "errored"
    /\ calls' = Append(calls, OnSessionError)
    /\ IF sessionPromise = "pending"
       THEN sessionPromise' \in {"pending", "rejected"}
       ELSE UNCHANGED sessionPromise
    /\ UNCHANGED <<l_pc, mediaStream, processorNode, stop_pc, currentInputTranscription,
                   currentOutputTranscription, sent, received, frames, isVoiceSessionActive,
                   alerted>>
    /\ UNCHANGED <<message, textVars, pcmVars, playerVars>>

\* the close event of the channel: after session.close(), after an error, or because the
\* remote side closed.  onclose runs callbacks.onClose, which is App's onClose.
ChannelCloses ==
    /\ ~StopIsNext
    /\ channel \in {"open", "closing", "errored"}
    /\ channel' = "closed"
    /\ calls' = Append(calls, OnSessionClose)
    /\ isVoiceSessionActive' = FALSE
    /\ UNCHANGED <<l_pc, mediaStream, sessionPromise, processorNode, stop_pc,
                   currentInputTranscription, currentOutputTranscription, sent, received,
                   frames, alerted>>
    /\ UNCHANGED <<message, textVars, pcmVars, playerVars>>

\* a server message is dispatched to onmessage: handleMessage(message).  A message that was
\* under way when session.close() was called may still be dispatched.
MessageArrives ==
    /\ ~StopIsNext
    /\ channel \in {"open", "closing"}
    /\ received < MaxMessages
    /\ \E m \in Messages :
          LET st == HandleMessage([input |-> currentInputTranscription,
                                   output |-> currentOutputTranscription,
                                   calls |-> calls, sent |-> sent, channel |-> channel,
                                   stop |-> stop_pc], m)
          IN /\ currentInputTranscription' = st.input
             /\ currentOutputTranscription' = st.output
             /\ calls' = st.calls
             /\ sent' = st.sent
             /\ message' = m
    /\ received' = received + 1
    /\ UNCHANGED <<l_pc, mediaStream, sessionPromise, channel, processorNode, stop_pc, frames,
                   isVoiceSessionActive, alerted>>
    /\ UNCHANGED <<textVars, pcmVars, playerVars>>

\* onaudioprocess on the connected pipeline: createBlob(inputData), and the then(...) on the
\* resolved promise sends the frame
AudioProcess ==
    /\ ~StopIsNext
    /\ processorNode = "connected"
    /\ frames < MaxAudioFrames
    /\ frames' = frames + 1
    /\ sent' = Append(sent, Send("media", 0, channel, stop_pc, Len(calls)))
    /\ UNCHANGED <<l_pc, mediaStream, sessionPromise, channel, processorNode, stop_pc,
                   currentInputTranscription, currentOutputTranscription, calls, received,
                   isVoiceSessionActive, alerted>>
    /\ UNCHANGED <<message, textVars, pcmVars, playerVars>>

\* handleToggleVoiceSession with the session active: liveSession.stop(), up to its await
StopRequested ==
    /\ ~StopIsNext
    /\ isVoiceSessionActive
    /\ stop_pc = "none"
    /\ mediaStream' = IF mediaStream = "live" THEN "stopped" ELSE mediaStream
    /\ processorNode' = IF processorNode = "connected" THEN "disconnected" ELSE processorNode
    /\ stop_pc' = "awaiting"
    /\ UNCHANGED <<l_pc, sessionPromise, channel, currentInputTranscription,
                   currentOutputTranscription, calls, sent, received, frames,
                   isVoiceSessionActive, alerted>>
    /\ UNCHANGED <<message, textVars, pcmVars, playerVars>>

\* stop() after its await: a rejected promise throws out of stop(); otherwise
\* session.close() and callbacks.onClose()
StopResumes ==
    /\ StopIsNext
    /\ IF sessionPromise = "rejected"
       THEN /\ stop_pc' = "threw"
            /\ UNCHANGED <<channel, calls, isVoiceSessionActive>>
       ELSE /\ stop_pc' = "done"
            /\ channel' = IF channel = "open" THEN "closing" ELSE channel
            /\ calls' = Append(calls, OnSessionClose)
            /\ isVoiceSessionActive' = FALSE
    /\ UNCHANGED <<l_pc, mediaStream, sessionPromise, processorNode, currentInputTranscription,
                   currentOutputTranscription, sent, received, frames, alerted>>
    /\ UNCHANGED <<message, textVars, pcmVars, playerVars>>

NextLive ==
    \/ StartCalled \/ DeviceSettles \/ ChannelOpens \/ ChannelError \/ ChannelCloses
    \/ MessageArrives \/ AudioProcess \/ StopRequested \/ StopResumes
SpecLive == Init /\ [][NextLive]_vars

\* ------------------------------------------------------------------ the chat messages of a voice session
\* App.tsx keeps the transcript in `messages` and the id of the message being written in
\* partialMessageId (0 for null); the id of a message is its place in the list.
ChatMessage(text, sender, isPartial) == [text |-> text, sender |-> sender, isPartial |-> isPartial]
NoChat == [messages |-> <<>>, partialMessageId |-> 0]

\* handleTranscriptionUpdate(text, isFinal, sender)
HandleTranscriptionUpdate(chat, text, isFinal, sender) ==
    IF chat.partialMessageId = 0
    THEN [messages |-> Append(chat.messages, ChatMessage(text, sender, TRUE)),
          partialMessageId |-> Len(chat.messages) + 1]
    ELSE [messages |-> [chat.messages EXCEPT ![chat.partialMessageId] =
                           [@ EXCEPT !.text = text, !.isPartial = ~isFinal]],
          partialMessageId |-> IF isFinal THEN 0 ELSE chat.partialMessageId]

SystemMessage == ChatMessage(<<"[System]">>, "AI", FALSE)

\* what one callback of the session does to the chat: a transcription update, the system
\* message of onToolCall and of onError, partialMessageId.current = null of onClose
HandleCall(chat, c) ==
    CASE c.type = "onTranscriptionUpdate" ->
            HandleTranscriptionUpdate(chat, c.text, c.isFinal, c.sender)
      [] c.type \in {"onToolCall", "onError"} ->
            [chat EXCEPT !.messages = Append(@, SystemMessage)]
      [] c.type = "onClose" -> [chat EXCEPT !.partialMessageId = 0]
      [] OTHER -> chat

\* the chat after the callbacks cs, in order
RECURSIVE ChatAfter(_)
ChatAfter(cs) ==
    IF cs = <<>> THEN NoChat ELSE HandleCall(ChatAfter(SubSeq(cs, 1, Len(cs) - 1)), cs[Len(cs)])

\* ------------------------------------------------------------------ reading the events
TypesOf(evs) == [i \in 1..Len(evs) |-> evs[i].type]
DataEvents(evs) == SelectSeq(evs, LAMBDA e : e.type = "onData")
ChunkEvents(evs) == SelectSeq(evs, LAMBDA e : e.type = "onChunk")
ImageEvents(evs) == SelectSeq(evs, LAMBDA e : e.type = "onImageRequired")
TerminalEvents(evs) == SelectSeq(evs, LAMBDA e : e.type \in {"onComplete", "onError"})

\* the texts of the onChunk events, concatenated
ChunkText(evs) == Concat([i \in 1..Len(ChunkEvents(evs)) |-> ChunkEvents(evs)[i].text])

\* what the stream has delivered so far
Received == SubSeq(full, 1, pos)

\* the events of a turn whose whole text t arrives as one fragment
WholeRun(t) ==
    LET st == ProcessChunk(FreshDecoder(<<>>), t)
    IN IF st.returned THEN st.events ELSE FinishStream(st).events

\* the stream was read to its end, or left at the image request
TurnDecoded == d_pc = "done" /\ d_exit \in {"eos", "image"}

\* ------------------------------------------------------------------ claims
\* C1: chunk-boundary invariance. For every turn text header+separator+body and every
\* way the stream cuts it into non-empty fragments, the decoded turn carries the same
\* onData records and the same concatenated onChunk text as the turn fed as one fragment.
C1_ChunkBoundaryInvariance ==
    (TurnDecoded /\ Includes(full, separator)) =>
        /\ DataEvents(events) = DataEvents(WholeRun(full))
        /\ ChunkText(events) = ChunkText(WholeRun(full))

\* a turn decoded although its separator arrived cut in two: the last fragment is
\* the separator's tail
C1_Witness ==
    /\ TurnDecoded
    /\ full = NormalHeader \o separator
    /\ chunkText = <<"E", "X", "T">>
    /\ events = <<OnData(JSONParse(NormalHeader).value), OnComplete>>

LastEvent == events[Len(events)]

\* C2 as stated: once the turn has terminated, by whichever path, exactly one terminal
\* event (onComplete or onError) has been emitted.
C2_Original == d_pc = "done" => Len(TerminalEvents(events)) = 1

\* C2 amended: a turn that ends at the end of the stream (or at the empty request) or
\* by an error has emitted exactly one terminal event, as its last event, onError on the
\* error path and onComplete otherwise; a turn that ends at the image request has
\* emitted no terminal event, onImageRequired being its last event; and no terminal
\* event is emitted before the turn has terminated.
C2_OneTerminalExceptImage ==
    /\ d_pc # "done" => TerminalEvents(events) = <<>>
    /\ (d_pc = "done" /\ d_exit = "image") =>
          /\ TerminalEvents(events) = <<>>
          /\ LastEvent.type = "onImageRequired"
    /\ (d_pc = "done" /\ d_exit # "image") =>
          /\ Len(TerminalEvents(events)) = 1
          /\ LastEvent = (IF d_exit = "error" THEN OnError ELSE OnComplete)

\* each ending happens; the image ending is the one the amendment is about
C2_Witness ==
    /\ d_pc = "done"
    /\ d_exit = "image"
    /\ full = ImageHeader \o separator \o <<"H">>
    /\ Len(events) = 2

\* C3: lossless degradation. Once the separator has been received behind a header that
\* JSON.parse rejects, the onChunk texts concatenated are exactly the text received so
\* far, header and separator included.
C3_LosslessDegradation ==
    (Includes(Received, separator) /\ ~JSONParse(JsonString(Received)).ok) =>
        ChunkText(events) = Received

\* a malformed header, resolved before the body had all arrived
C3_Witness ==
    /\ d_pc = "done"
    /\ d_exit = "eos"
    /\ full = TruncatedHeader \o separator \o <<"H", " ">>
    /\ Len(ChunkEvents(events)) = 3
    /\ ChunkText(events) = full

\* the stream ended with no separator ever seen
EndedUnresolved == d_pc = "done" /\ d_exit = "eos" /\ ~Includes(full, separator)

FallbackEvents == <<OnData(defaultData), OnChunk(full), OnComplete>>

\* C4 as stated: if the stream ends unresolved with a non-empty buffer, the events are
\* onData(default header), onChunk(whole buffer), onComplete.
C4_Original == (EndedUnresolved /\ full # <<>>) => events = FallbackEvents

\* C4 amended: if the stream ends unresolved and the buffer is non-empty after trimming
\* white space, the events are onData(default header), onChunk(whole untrimmed buffer),
\* onComplete.
C4_FallbackWhenNotBlank == (EndedUnresolved /\ Trim(full) # <<>>) => events = FallbackEvents

\* a separator-less turn with white space at its end, emitted untrimmed
C4_Witness ==
    /\ EndedUnresolved
    /\ full = <<"H", " ">>
    /\ events = FallbackEvents

\* the header received before the separator, as JSON.parse reads it
ReceivedHeader == JSONParse(JsonString(Received))

\* it is a header record: an object with every member of ParsedData
IsHeaderRecord(parsed) ==
    parsed.ok /\ ~parsed.value.isNull /\ ParsedDataFields \subseteq parsed.value.fields

\* C5: image-required short-circuit. Once the separator has been received behind a
\* header record with is_image_prompt true and a prompt, the turn is over and its
\* events are onData(record), onImageRequired(prompt) and nothing else, ever: no
\* onChunk for the text after the separator, none for what the stream still holds.
C5_ImageShortCircuit ==
    (Includes(Received, separator) /\ IsHeaderRecord(ReceivedHeader)
        /\ ImageRequested(ReceivedHeader.value)) =>
            /\ d_pc = "done"
            /\ d_exit = "image"
            /\ events = <<OnData(ReceivedHeader.value),
                          OnImageRequired(ReceivedHeader.value.image_prompt_text)>>

\* an image turn left with body text both in the buffer and still unread
C5_Witness ==
    /\ d_exit = "image"
    /\ full = ImageHeader \o separator \o <<"H", "H">>
    /\ buffer = ImageHeader \o separator \o <<"H">>
    /\ ImageEvents(events) = <<OnImageRequired(<<"cat">>)>>

\* a header record that asks for no image has been received
NormalTurn ==
    /\ Includes(Received, separator)
    /\ IsHeaderRecord(ReceivedHeader)
    /\ ~ImageRequested(ReceivedHeader.value)

\* the events between the first and the terminal one
BodyEvents ==
    SubSeq(events, 2, IF d_pc = "done" THEN Len(events) - 1 ELSE Len(events))

\* C6: event order of a normal turn. For a header record that asks for no image: the
\* first event is onData(record); then come onChunk events only, none of them empty
\* (an empty remainder after the separator is not emitted), whose texts concatenated
\* are the text received after the separator; every fragment received once the header
\* is parsed is appended as its own onChunk; and onComplete ends the turn when the
\* stream ends.
C6_NormalTurnOrder ==
    /\ [](NormalTurn =>
            /\ events[1] = OnData(ReceivedHeader.value)
            /\ \A i \in 1..Len(BodyEvents) :
                  BodyEvents[i].type = "onChunk" /\ BodyEvents[i].text # <<>>
            /\ ChunkText(events) = FirstTextChunk(Received)
            /\ (d_pc = "done" /\ d_exit = "eos") => LastEvent = OnComplete)
    /\ [][(NormalTurn /\ pos' > pos) =>
            events' = Append(events, OnChunk(SubSeq(full, pos + 1, pos')))]_vars

\* the remainder after the separator first, then two later fragments, then onComplete
C6_Witness ==
    /\ d_pc = "done"
    /\ d_exit = "eos"
    /\ full = CodeHeader \o separator \o <<"H", " ">>
    /\ buffer = CodeHeader \o separator \o <<"H">>
    /\ events = <<OnData(JSONParse(CodeHeader).value), OnChunk(<<"H">>), OnChunk(<<" ">>),
                  OnComplete>>

\* ------------------------------------------------------------------ reading the retry log
LogIndices(type) == {i \in 1..Len(r_log) : r_log[i].type = type}
Invocations == Cardinality(LogIndices("invoke"))
Failed(i) == r_log[i].type = "fail"
RetriableAt(i) == IsRetriableError(ErrorString(r_log[i].error))

RECURSIVE Pow2(_)
Pow2(k) == IF k = 0 THEN 1 ELSE 2 * Pow2(k - 1)

\* the call has thrown and every attempt it made failed with a retriable error
AlwaysFailedRetriably ==
    /\ r_pc = "thrown"
    /\ \A i \in LogIndices("fail") : RetriableAt(i)

\* C7: backoff schedule. When every attempt fails with a retriable error, a call with
\* maxRetries = N and initialDelay = D makes exactly N attempts, sleeps D * 2^k between
\* attempt k and attempt k+1, does not sleep after the last attempt, and throws.
C7_BackoffSchedule ==
    AlwaysFailedRetriably =>
        /\ Invocations = maxRetries
        /\ Len(r_log) = (IF maxRetries = 0 THEN 0 ELSE 3 * maxRetries - 1)
        /\ \A k \in 0..(maxRetries - 1) :
              /\ r_log[3 * k + 1] = LogEntry("invoke", k, 0, NoError)
              /\ Failed(3 * k + 2) /\ r_log[3 * k + 2].attempt = k
              /\ k < maxRetries - 1 =>
                    r_log[3 * k + 3] = LogEntry("sleep", k, initialDelay * Pow2(k), NoError)

\* three attempts, delays D then 2D, then the throw
C7_Witness ==
    /\ AlwaysFailedRetriably
    /\ r_op = "generic"
    /\ maxRetries = 3
    /\ initialDelay = 1000
    /\ [i \in 1..Len(r_log) |-> r_log[i].type]
          = <<"invoke", "fail", "sleep", "invoke", "fail", "sleep", "invoke", "fail">>
    /\ r_log[3].ms = 1000
    /\ r_log[6].ms = 2000

\* C8: a non-retriable error propagates immediately. A failure whose error does not
\* match the retriable pattern is the last thing the call did, whatever the attempt:
\* no sleep and no invocation follow it, and the call has thrown that very error.
C8_NonRetriablePropagates ==
    \A i \in LogIndices("fail") :
        ~RetriableAt(i) =>
            /\ i = Len(r_log)
            /\ r_pc = "thrown"
            /\ r_error = r_log[i].error

\* a non-retriable error on the second attempt, after one retry
C8_Witness ==
    /\ r_pc = "thrown"
    /\ r_op = "generic"
    /\ attempt = 1
    /\ maxRetries = 3
    /\ r_error = BadRequestError
    /\ Len(r_log) = 5

\* C9: an empty payload is a data error. When generateImages fulfils without an image,
\* the failure is the last thing generateImage did: no sleep and no further invocation
\* follow, generateImage has thrown the no-image-data error to its caller, and when
\* that was the first response the remote call was invoked exactly once.
C9_EmptyPayloadNotRetried ==
    \A i \in LogIndices("fail") :
        (r_op = "image" /\ r_log[i].error = NoImageDataError) =>
            /\ i = Len(r_log)
            /\ r_pc = "thrown"
            /\ r_error = NoImageDataError
            /\ r_log[i].attempt = 0 => (Invocations = 1 /\ LogIndices("sleep") = {})

\* the first response of the image call carries no image
C9_Witness ==
    /\ r_op = "image"
    /\ r_pc = "thrown"
    /\ r_error = NoImageDataError
    /\ r_log = <<LogEntry("invoke", 0, 0, NoError), LogEntry("fail", 0, 0, NoImageDataError)>>

\* C10: no duplicate side effects. The k-th invocation is the one of attempt k-1, so
\* there is one invocation per attempt and at most maxRetries in all; an invocation is
\* followed by its own settlement before anything else, and every invocation but the
\* first directly follows the sleep that followed the failure of the one before; a
\* success is the last thing the call did, and its value is what the call returned.
C10_NoDuplicateInvocation ==
    /\ Invocations <= maxRetries
    /\ \A i \in LogIndices("invoke") :
          /\ r_log[i].attempt = Cardinality({j \in LogIndices("invoke") : j < i})
          /\ i < Len(r_log) => r_log[i + 1].type \in {"ok", "fail"}
          /\ i = Len(r_log) => r_pc = "awaiting"
          /\ i > 1 => (r_log[i - 1].type = "sleep" /\ r_log[i - 2].type = "fail")
    /\ \A i \in LogIndices("ok") :
          /\ i = Len(r_log)
          /\ r_pc = "returned"
          /\ r_result # "none"
    /\ r_pc = "returned" => r_log[Len(r_log)].type = "ok"
    /\ r_pc = "awaiting" => r_log[Len(r_log)].type = "invoke"

\* a success on the third attempt
C10_Witness ==
    /\ r_pc = "returned"
    /\ r_op = "generic"
    /\ attempt = 2
    /\ Invocations = 3
    /\ r_result = "value"

\* ------------------------------------------------------------------ claims on the PCM frames
\* Math.round(n / AmplitudeGrid * 32768), halves upwards
RoundedCode(n) == (2 * n + StepsPerCode) \div (2 * StepsPerCode)
Saturate(x) == IF x > Int16Scale - 1 THEN Int16Scale - 1 ELSE IF x < -Int16Scale THEN -Int16Scale ELSE x

\* C19: every sample s in [-1.0, 1.0] is encoded as round(s * 32768) clamped to
\* [-32768, 32767]; s = 1.0 is encoded as 32767 and never as a negative value.
C19_Saturates ==
    pcm_pc # "idle" =>
        \A i \in 1..Len(inputData) :
            /\ int16[i] = Saturate(RoundedCode(inputData[i]))
            /\ inputData[i] = AmplitudeGrid => int16[i] = Int16Scale - 1

\* C20: a sample encoded by createBlob and decoded by decodeAudioData comes back within
\* 1/32768 of its value, for every s in [-1.0, 1.0].
C20_RoundTrip ==
    pcm_pc = "decoded" =>
        \A i \in 1..Len(inputData) :
            Abs(channelData[i] * StepsPerCode - inputData[i]) <= StepsPerCode

\* ------------------------------------------------------------------ claims on the AudioPlayer
\* where source i was scheduled to end
ScheduledEnd(i) == started[i].when + started[i].duration

\* source i + 1 was handed to play() right after source i, with no stopAll() in between
Consecutive(i) == i + 1 <= Len(started) /\ started[i + 1].stops = started[i].stops

\* C16: when two frames of durations d1 then d2 are handed to play() and the clock does not
\* advance between them, the second is scheduled to start at the first one's start + d1.
C16_Gapless ==
    \A i \in 1..Len(started) :
        (Consecutive(i) /\ started[i + 1].startedAt = started[i].calledAt)
            => started[i + 1].when = started[i].when + started[i].duration

C16_Witness ==
    /\ Len(started) = 2
    /\ currentTime = 1
    /\ started[1].calledAt = 1 /\ started[1].when = 1 /\ started[1].duration = 2
    /\ started[2].startedAt = 1 /\ started[2].when = 3
    /\ started[2].stops = started[1].stops

\* the scheduled end of the buffer that arrived before source i (none after a stopAll())
PreviousEnd(i) == IF i > 1 /\ started[i - 1].stops = started[i].stops THEN ScheduledEnd(i - 1) ELSE 0

\* C17: buffers are scheduled in arrival order, each at max(clock time when it is
\* scheduled, scheduled end of the buffer that arrived before it), so no two overlap.
C17_ScheduledAtMax ==
    \A i \in 1..Len(started) :
        /\ started[i].when = Max(started[i].startedAt, PreviousEnd(i))
        /\ Consecutive(i) => started[i + 1].when >= ScheduledEnd(i)
        /\ Consecutive(i) => PlaysFrom(started[i + 1]) >= PlaysFrom(started[i]) + started[i].duration

\* source i comes from the first play() after a stopAll()
FirstAfterStopAll(i) == started[i].stops > (IF i = 1 THEN 0 ELSE started[i - 1].stops)

\* C18: stopAll() halts every buffer that is scheduled or playing, leaves the tracked set
\* empty and the cursor at zero, so the first play() after it starts at the current clock
\* time: the one the call read, and the source plays from the tick it is started at.
C18_StopAllResets ==
    /\ [](/\ sources = {i \in 1..Len(started) : started[i].state = "scheduled"}
          /\ \A i \in 1..Len(started) :
                FirstAfterStopAll(i) =>
                    /\ started[i].when = started[i].calledAt
                    /\ PlaysFrom(started[i]) = started[i].startedAt)
    /\ [][stopCount' = stopCount + 1 =>
            /\ sources' = {}
            /\ nextStartTime' = 0
            /\ \A i \in 1..Len(started') : started'[i].state # "scheduled"]_vars

C18_Witness ==
    /\ Len(started) = 2
    /\ currentTime = 1
    /\ started[1].when = 0 /\ started[1].duration = 2 /\ started[1].state = "stopped"
    /\ started[2].stops = 1 /\ started[2].calledAt = 1 /\ started[2].when = 1
    /\ sources = {2}

\* ------------------------------------------------------------------ claims on the LiveSession
CloseCalls == Len(SelectSeq(calls, LAMBDA c : c.type = "onClose"))

\* the session has ended: stop() has returned, or the channel has closed
SessionEnded == stop_pc = "done" \/ channel = "closed"

\* C11: onClose is invoked exactly once for a voice session, whichever path ends it:
\* explicit stop(), a close by the remote side, or an error.
C11_CloseExactlyOnce ==
    /\ CloseCalls <= 1
    /\ SessionEnded => CloseCalls = 1

\* C12: once stop() has been requested, a server message that arrives afterwards produces
\* no callback, no send on the channel and no change of the transcription accumulators.
C12_IgnoredAfterStop ==
    [][(stop_pc # "none" /\ received' = received + 1) =>
          /\ calls' = calls
          /\ sent' = sent
          /\ currentInputTranscription' = currentInputTranscription
          /\ currentOutputTranscription' = currentOutputTranscription]_vars

\* C13: when stop() signals completion, every track of the capture stream has been stopped
\* and the encoder is disconnected from the transport.
C13_ReleasedOnStop ==
    stop_pc \in {"done", "threw"} => (mediaStream = "stopped" /\ processorNode # "connected")

\* the capture device is released and the encoder is off the transport
Released == mediaStream # "live" /\ processorNode # "connected"

\* the state of the session controller, read off the fields: Closed is teardown complete,
\* Closing is stop() requested and teardown not complete; "Other" is none of the five
SessionState ==
    IF sessionPromise = "null" THEN (IF l_pc = "failed" THEN "Closed" ELSE "Idle")
    ELSE IF Released /\ channel \in {"closed", "errored"} /\ stop_pc # "awaiting" THEN "Closed"
    ELSE IF stop_pc # "none" THEN "Closing"
    ELSE IF channel = "connecting" THEN "Connecting"
    ELSE IF channel = "open" THEN "Open"
    ELSE "Other"

\* the steps of the state machine; stop() before the channel has opened goes from
\* Connecting to Closing, and a start() that fails ends the session from Idle
StateSteps ==
    {<<"Idle", "Connecting">>, <<"Connecting", "Open">>, <<"Open", "Closing">>,
     <<"Closing", "Closed">>, <<"Connecting", "Closing">>, <<"Idle", "Closed">>}

ErrorSurfaced == Len(calls') = Len(calls) + 1 /\ calls'[Len(calls')].type = "onError"

\* C14: the session moves only along Idle, Connecting, Open, Closing, Closed; an onerror of
\* the channel in a non-terminal state moves it directly to Closed, with onError surfaced;
\* Closed is terminal.
C14_StateMachine ==
    [][/\ SessionState' \in {"Idle", "Connecting", "Open", "Closing", "Closed"}
       /\ ErrorSurfaced => SessionState' = "Closed"
       /\ (~ErrorSurfaced /\ SessionState' # SessionState) =>
              <<SessionState, SessionState'>> \in StateSteps
       /\ SessionState = "Closed" => SessionState' = "Closed"]_vars

\* C15: when the capture device cannot be acquired, start() fails before any remote channel
\* is opened, and its caller can tell that failure from a failure to connect the channel:
\* start() throws for the device only, a channel that was ever asked for means start()
\* returned, and its failure comes through onError.
C15_DeviceFailureDistinct ==
    /\ l_pc = "failed" =>
          (alerted /\ mediaStream = "null" /\ sessionPromise = "null" /\ channel = "none"
             /\ calls = <<>> /\ sent = <<>>)
    /\ channel # "none" => (l_pc = "started" /\ ~alerted)
    /\ (channel = "errored" /\ processorNode = "null") =>
          (l_pc = "started" /\ \E i \in 1..Len(calls) : calls[i].type = "onError")

C15_Witness ==
    /\ l_pc = "failed"
    /\ alerted
    /\ channel = "none"
    /\ ~isVoiceSessionActive

\* the callbacks a step has added
NewCalls == SubSeq(calls', Len(calls) + 1, Len(calls'))
Position(c, cs) == IF \E i \in 1..Len(cs) : cs[i] = c
                   THEN CHOOSE i \in 1..Len(cs) : cs[i] = c ELSE 0
TranscriptionCalls(cs) == SelectSeq(cs, LAMBDA c : c.type = "onTranscriptionUpdate")
Count(b) == IF b THEN 1 ELSE 0

\* C21: a partial transcript is appended to its speaker's accumulator and surfaced as a
\* non-final update with the whole accumulated text; a turn-complete surfaces each
\* accumulator that holds text as a final update, after which both are empty, so the
\* updates of the next turn carry no text of this one.
C21_TranscriptionAccumulation ==
    [][received' = received + 1 =>
          LET m == message'
              out1 == IF m.outputTranscription.present
                      THEN currentOutputTranscription \o m.outputTranscription.text
                      ELSE currentOutputTranscription
              in1 == IF m.inputTranscription.present
                     THEN currentInputTranscription \o m.inputTranscription.text
                     ELSE currentInputTranscription
              partialOut == Position(OnTranscriptionUpdate(out1, FALSE, "AI"), NewCalls)
              partialIn == Position(OnTranscriptionUpdate(in1, FALSE, "USER"), NewCalls)
              finalOut == Position(OnTranscriptionUpdate(out1, TRUE, "AI"), NewCalls)
              finalIn == Position(OnTranscriptionUpdate(in1, TRUE, "USER"), NewCalls)
          IN /\ SubSeq(calls', 1, Len(calls)) = calls
             /\ m.outputTranscription.present <=> partialOut > 0
             /\ m.inputTranscription.present <=> partialIn > 0
             /\ (m.turnComplete /\ out1 # <<>>) <=> finalOut > 0
             /\ (m.turnComplete /\ in1 # <<>>) <=> finalIn > 0
             /\ finalOut > 0 => finalOut > partialOut /\ finalOut > partialIn
             /\ finalIn > 0 => finalIn > partialOut /\ finalIn > partialIn
             /\ Len(TranscriptionCalls(NewCalls)) =
                    Count(partialOut > 0) + Count(partialIn > 0)
                    + Count(finalOut > 0) + Count(finalIn > 0)
             /\ currentOutputTranscription' = IF m.turnComplete THEN <<>> ELSE out1
             /\ currentInputTranscription' = IF m.turnComplete THEN <<>> ELSE in1]_vars

C21_Witness ==
    /\ calls = <<OnTranscriptionUpdate(<<"a">>, FALSE, "AI"),
                 OnTranscriptionUpdate(<<"a", "a">>, FALSE, "AI"),
                 OnTranscriptionUpdate(<<"b">>, FALSE, "USER"),
                 OnTranscriptionUpdate(<<"b">>, TRUE, "USER"),
                 OnTranscriptionUpdate(<<"a", "a">>, TRUE, "AI"),
                 OnTranscriptionUpdate(<<"a">>, FALSE, "AI")>>
    /\ currentOutputTranscription = <<"a">>
    /\ currentInputTranscription = <<>>

\* the tool calls handed to the caller and the acknowledgements sent, in order
ToolCallPositions == SelectSeq([i \in 1..Len(calls) |-> i], LAMBDA i : calls[i].type = "onToolCall")
Acks == SelectSeq(sent, LAMBDA x : x.kind = "toolResponse")

\* C22: every function call of a server message is handed to the caller as a ToolCall
\* and acknowledged exactly once under its call id; the ToolCall comes before its
\* acknowledgement, and the acknowledgement is sent without waiting for the caller, so no
\* state has a ToolCall whose acknowledgement is still to come.
C22_ToolCallAcknowledged ==
    /\ Len(Acks) = Len(ToolCallPositions)
    /\ \A k \in 1..Len(Acks) :
          /\ Acks[k].id = calls[ToolCallPositions[k]].id
          /\ Acks[k].after >= ToolCallPositions[k]

C22_Witness ==
    /\ message.functionCalls = <<1, 2>>
    /\ Len(Acks) = 3
    /\ [k \in 1..3 |-> Acks[k].id] = <<1, 1, 2>>

\* C26: whenever a voice session has ended, by stop(), by a close from the remote side or
\* by an error of the channel, the capture device and the capture pipeline are released.
C26_ReleasedOnEveryExit ==
    (stop_pc \in {"done", "threw"} \/ channel \in {"closed", "errored"}) => Released

\* C27: the session transmits only while Open: every send, of an audio frame or of a tool
\* acknowledgement, is made on an open channel and before stop() was requested.
C27_SendsOnlyWhileOpen ==
    \A i \in 1..Len(sent) : sent[i].channel = "open" /\ sent[i].stop = "none"

\* ------------------------------------------------------------------ more claims on the decoder
\* C23: while the stream is being read and the separator is not yet whole in what has
\* arrived, no event of any kind has been emitted and the buffer is the concatenation of
\* every fragment received so far.
C23_SilentUntilSeparator ==
    (d_pc = "streaming" /\ ~Includes(Received, separator)) =>
        (events = <<>> /\ buffer = Received /\ ~jsonParsed)

C23_Witness ==
    /\ d_pc = "streaming"
    /\ buffer = NormalHeader \o SubSeq(separator, 1, 5)
    /\ chunkText # <<>>
    /\ chunkText # buffer
    /\ Includes(full, separator)
    /\ events = <<>>

\* the text before the separator has arrived and does not parse
MalformedHeader == Includes(Received, separator) /\ ~ReceivedHeader.ok

\* C24: when the text before the separator fails to parse, the whole accumulated buffer is
\* emitted as one onChunk, with no onData and no onError for it; every later fragment is
\* passed on as an onChunk of its own without being parsed again, and the turn read to its
\* end finishes with onComplete.
C24_MalformedHeaderDegrades ==
    /\ [](MalformedHeader =>
            /\ jsonParsed
            /\ Includes(buffer, separator)
            /\ buffer = SubSeq(full, 1, Len(buffer))
            /\ events[1] = OnChunk(buffer)
            /\ DataEvents(events) = <<>>
            /\ ImageEvents(events) = <<>>
            /\ ChunkText(events) = Received
            /\ (\E i \in 1..Len(events) : events[i] = OnError) => d_exit = "error"
            /\ d_exit = "eos" =>
                  /\ events[Len(events)] = OnComplete
                  /\ \A i \in 1..(Len(events) - 1) : events[i].type = "onChunk")
    /\ [][(MalformedHeader /\ pos' > pos) =>
             /\ events' = Append(events, OnChunk(SubSeq(full, pos + 1, pos')))
             /\ buffer' = buffer]_vars

C24_Witness ==
    /\ d_exit = "eos"
    /\ events = <<OnChunk(TruncatedHeader \o separator), OnChunk(<<"H">> \o separator),
                  OnComplete>>

\* the text before and after the first occurrence of the separator in what has arrived
BeforeFirst == SubSeq(Received, 1, IndexOf(Received, separator) - 1)
AfterFirst == SubSeq(Received, IndexOf(Received, separator) + Len(separator), Len(Received))

\* C25: when the separator occurs more than once, the header is the text before its first
\* occurrence and the body is everything after the first occurrence, the later
\* occurrences included as they came.
C25_FirstSeparatorDelimits ==
    (/\ Includes(Received, separator)
     /\ Includes(AfterFirst, separator)
     /\ IsHeaderRecord(JSONParse(BeforeFirst))
     /\ ~ImageRequested(JSONParse(BeforeFirst).value)) =>
        /\ DataEvents(events) = <<OnData(JSONParse(BeforeFirst).value)>>
        /\ ChunkText(events) = AfterFirst

C25_Witness ==
    /\ d_exit = "eos"
    /\ buffer = NormalHeader \o separator \o <<"H">> \o separator
    /\ events = <<OnData(JSONParse(NormalHeader).value), OnChunk(<<"H">> \o separator),
                  OnComplete>>

\* the invariant of a header record
RecordInvariant(d) ==
    /\ d.is_image_prompt => d.image_prompt_text # <<>>
    /\ ~d.is_image_prompt => d.image_prompt_text = <<>>
    /\ d.is_code_block => (d.code_block_language # <<>> /\ d.code_block_content # <<>>)
    /\ ~d.is_code_block => (d.code_block_language = <<>> /\ d.code_block_content = <<>>)

\* C30: every record delivered by onData satisfies the record invariant.
C30_RecordInvariant ==
    \A i \in 1..Len(DataEvents(events)) : RecordInvariant(DataEvents(events)[i].data)

\* ------------------------------------------------------------------ more claims on the retry
\* the failure of the last attempt
LastFailure == r_log[Len(r_log)]

\* C28: after maxRetries attempts that all failed with retriable errors, the error the
\* caller gets is a FinalError, marking that the retries are used up, around the error
\* of the last attempt.
C28_FinalErrorOnExhaustion ==
    (AlwaysFailedRetriably /\ maxRetries >= 1 /\ Invocations = maxRetries) =>
        /\ Failed(Len(r_log))
        /\ r_error.kind = "FinalError"
        /\ r_error.text = LastFailure.error.text

\* the text of the error itself carries a marker of the retriable pattern
CarriesMarker(error) == \E i \in 1..Len(error.text) : error.text[i] \in RetriablePattern

\* C29: a failed attempt that leaves attempts to make is retried exactly when the text of
\* its error carries 429, 500, 503 or a marker of resource exhaustion or unavailability.
C29_RetriedIffMarked ==
    \A i \in LogIndices("fail") :
        r_log[i].attempt < maxRetries - 1 =>
            (CarriesMarker(r_log[i].error)
                <=> (i < Len(r_log) /\ r_log[i + 1].type = "sleep"))

\* ------------------------------------------------------------------ claims across a turn
\* an event other than a terminal one has been emitted for the turn
TurnEmitted == DataEvents(events) # <<>> \/ ChunkEvents(events) # <<>> \/ ImageEvents(events) # <<>>

\* C31: the retry covers the opening of the response stream only. Once onData, onChunk
\* or onImageRequired has been emitted for a turn no call of the remote send is under way
\* and none is made again, and a failure while the stream is read ends the turn with
\* onError added behind the events already emitted.
C31_RetryCoversOpeningOnly ==
    /\ [](TurnEmitted => r_op # "stream")
    /\ [][TurnEmitted => r_op' # "stream"]_vars
    /\ [][(d_pc = "streaming" /\ d_exit' = "error") =>
             (events' = Append(events, OnError) /\ d_pc' = "done" /\ r_pc' = "idle")]_vars

C31_Witness ==
    /\ d_exit = "error"
    /\ events = <<OnData(JSONParse(NormalHeader).value), OnChunk(<<"H">>), OnChunk(<<"H">>),
                  OnError>>

\* ------------------------------------------------------------------ more claims on the AudioPlayer
\* stopAll() has run and no play() has been called since
QuietSinceStopAll ==
    /\ stopCount > 0
    /\ p_pc = "idle"
    /\ \A i \in 1..Len(started) : started[i].stops < stopCount

C33_StopWhileConnecting ==
    [][(stop_pc # "none" /\ processorNode = "null") =>
          /\ processorNode' = "null"
          /\ SelectSeq(sent', LAMBDA x : x.kind = "media") = <<>>]_vars

\* ------------------------------------------------------------------ more claims on the decoder
\* C34: when onData has been emitted for a turn that holds the separator, the chunk texts
\* of the turn together are exactly the text after the separator: neither the header nor
\* the separator is emitted as text, whatever the caller's handlers do.
C34_HeaderAndBodyNeverMix ==
    (Includes(Received, separator) /\ DataEvents(events) # <<>> /\ ImageEvents(events) = <<>>) =>
        ChunkText(events) = AfterFirst

\* ------------------------------------------------------------------ claims on the loading flag
\* sendMessageStreamToAI has returned and, on the image path, handleImageGeneration too
TurnOver == d_pc = "done" /\ (d_exit = "image" => i_pc = "done")

\* C35: every submitted turn clears the loading flag, once: the flag set at submission is
\* eventually false, it is cleared at most once along the turn and not before the turn's
\* outcome, and when the turn is over (onComplete, onError, or onImageRequired followed by
\* the success or failure of the image generation) it has been cleared exactly once.
C35_LoadingFlagCleared ==
    /\ [](loadingCleared <= 1)
    /\ [](isLoading => loadingCleared = 0)
    /\ [](TurnOver => (~isLoading /\ loadingCleared = 1))
    /\ [](loadingCleared = 1 => TurnOver)
    /\ (isLoading ~> (~isLoading /\ TurnOver))

C35_Witness ==
    /\ d_exit = "image"
    /\ i_pc = "done"
    /\ ~isLoading
    /\ loadingCleared = 1
    /\ events = <<OnData(JSONParse(ImageHeader).value), OnImageRequired(<<"cat">>)>>

\* C36: onData is emitted at most once for a turn and never after an onChunk of the turn,
\* whether the header parsed, failed to parse, or the stream ended without a separator.
C36_HeaderOnceAndFirst ==
    /\ Len(DataEvents(events)) <= 1
    /\ \A i, j \in 1..Len(events) :
          (events[i].type = "onData" /\ events[j].type = "onChunk") => i < j

\* the stream ended without a separator: the default record, then the text
C36_Witness ==
    /\ d_exit = "eos"
    /\ ~Includes(full, separator)
    /\ events = <<OnData(defaultData), OnChunk(ProseHeader \o <<"H">>), OnComplete>>

\* the header received is a record with the image flag set and an empty prompt
FlagWithoutPrompt ==
    /\ Includes(Received, separator)
    /\ IsHeaderRecord(ReceivedHeader)
    /\ ReceivedHeader.value.is_image_prompt
    /\ ReceivedHeader.value.image_prompt_text = <<>>

\* C37: a header with the image flag set and an empty prompt does not end the turn: no
\* onImageRequired is emitted and no image generation starts, the text after the separator
\* and the later fragments are emitted as onChunk, and the stream read to its end finishes
\* with onComplete.
C37_FlagWithoutPromptGoesOn ==
    FlagWithoutPrompt =>
        /\ ImageEvents(events) = <<>>
        /\ d_exit # "image"
        /\ i_pc = "none"
        /\ events[1] = OnData(ReceivedHeader.value)
        /\ ChunkText(events) = AfterFirst
        /\ d_pc = "streaming" => Len(events) = 1 + Len(ChunkEvents(events))
        /\ d_exit = "eos" =>
              (events[Len(events)] = OnComplete /\ Len(events) = 2 + Len(ChunkEvents(events)))

C37_Witness ==
    /\ d_exit = "eos"
    /\ events = <<OnData(JSONParse(ImageNoPromptHeader).value), OnChunk(<<"H">>),
                  OnChunk(<<"H">>), OnComplete>>

\* ------------------------------------------------------------------ claims on the voice transcript
\* the final transcription updates delivered so far
FinalUpdates == SelectSeq(calls, LAMBDA c : c.type = "onTranscriptionUpdate" /\ c.isFinal)

\* C38: once the final updates of a turn-complete have been delivered to the App, no chat
\* message is marked partial, and each final text is held by a message of its speaker.
C38_TranscriptSettles ==
    (received > 0 /\ message.turnComplete) =>
        LET chat == ChatAfter(calls)
        IN /\ \A i \in 1..Len(chat.messages) : ~chat.messages[i].isPartial
           /\ \A k \in 1..Len(FinalUpdates) :
                 \E i \in 1..Len(chat.messages) :
                    /\ chat.messages[i].text = FinalUpdates[k].text
                    /\ chat.messages[i].sender = FinalUpdates[k].sender

====
